---- MODULE Spec2Model ----
(***************************************************************************)
(* A model of .github/scripts/check_locales.py: the locale validator that  *)
(* compares the placeholders of every translated message with those the    *)
(* reference locale declares, and reports pilcrow characters.              *)
(*                                                                         *)
(* Strings are sequences of one-character strings, so that concatenation,  *)
(* prefix/suffix tests, the regular expression and lexicographic sorting   *)
(* are computed, not assumed.  The file system is consulted lazily: every  *)
(* call of the program into the operating system (isdir, glob, open,       *)
(* isfile, walk) draws its answer when the program makes the call, and is  *)
(* recorded in the log io.                                                 *)
(***************************************************************************)
EXTENDS Naturals, Sequences, FiniteSets

VARIABLES
    pc,                 \* position of main()
    reference_locale,   \* args.ref_locale
    reference_messages, \* dict built by parseJsonFiles for the reference
    exceptions,         \* content of check_exceptions.json, or {}
    locales,            \* sorted list of the locales to validate
    messages_with_placeholders, \* reference ids that declare placeholders
    li,                 \* index in locales of the locale of the for loop
    locale_messages,    \* dict built by parseJsonFiles for that locale
    file_list,          \* parseJsonFiles: the files still to be read
    errors,             \* the error records collected
    stdout,             \* what was printed
    stderr,             \* what was written to standard error
    exit_status,        \* None while running, then 0 or 1
    io                  \* log of the calls into the operating system

vars == <<pc, reference_locale, reference_messages, exceptions, locales,
          messages_with_placeholders, li, locale_messages, file_list,
          errors, stdout, stderr, exit_status, io>>

-----------------------------------------------------------------------------
(* Bounds and input alphabets *)

\* Total number of JSON files the directories read in one run may hold.
MaxJsonFiles == 4

None == "None"
EmptyDict == <<>>
PILCROW == "PILCROW"    \* the character U+00B6

\* Code points of the characters used: Python compares strings by code point.
Ord == [c \in {"$", ".", "0", ":", "@", "_", "a", "b", "d", "e", "f", "g",
               "h", "j", "m", "n", "o", "r", "s", "t", "x", PILCROW} |->
          CASE c = "$" -> 36  [] c = "." -> 46  [] c = "0" -> 48
            [] c = ":" -> 58  [] c = "@" -> 64  [] c = "_" -> 95
            [] c = "a" -> 97  [] c = "b" -> 98  [] c = "d" -> 100
            [] c = "e" -> 101 [] c = "f" -> 102 [] c = "g" -> 103
            [] c = "h" -> 104 [] c = "j" -> 106 [] c = "m" -> 109
            [] c = "n" -> 110 [] c = "o" -> 111 [] c = "r" -> 114
            [] c = "s" -> 115 [] c = "t" -> 116 [] c = "x" -> 120
            [] c = PILCROW -> 182]

\* Directory names that may exist under locales_path.
DirNames == { <<"e","n">>, <<"d","e">>, <<"f","r">>, <<".","g">> }

\* Names that may exist inside a locale directory.
FileNames == { <<"a",".","j","s","o","n">>, <<"b",".","j","s","o","n">>,
               <<"n",".","t","x","t">>, <<".","h",".","j","s","o","n">> }

\* A message entry of a JSON file, as json.load returns it: a dict, here a
\* record; the keys of "placeholders" are kept in the file's order.
EntryDeclA   == [message |-> <<"$","a","$">>, placeholders |-> << <<"a">> >>]
EntryNoDecl  == [message |-> <<"$","b","$",PILCROW>>]
EntryEmpty   == [message |-> <<"$","a","$",PILCROW>>, placeholders |-> <<>>]
EntryTwice   == [message |-> <<"$","a","$","$","a","$">>,
                 placeholders |-> << <<"a">> >>]
EntryDeclBA  == [message |-> <<"$","a","$","x","$","b","$">>,
                 placeholders |-> << <<"b">>, <<"a">> >>]
EntryNoMessage == [description |-> <<"x">>]
Entries == {EntryDeclA, EntryNoDecl, EntryEmpty, EntryTwice, EntryDeclBA,
            EntryNoMessage}

MessageIds == { <<"m">> }

\* What json.load of a message file may give: a failure, or the items of the
\* top-level object in the file's order.
JSONDecodeError == "JSONDecodeError"
JsonFiles == { [raised |-> JSONDecodeError, items |-> <<>>] } \cup
             { [raised |-> None, items |-> << <<id, e>> >>] :
                 id \in MessageIds, e \in Entries }

\* What check_exceptions.json may hold when it exists.
KeyAM == <<"a",".","j","s","o","n",":","m">>
ExceptionFiles ==
    { [placeholders |-> [l \in { <<"d","e">> } |-> {KeyAM}]] }


-----------------------------------------------------------------------------
(* Strings *)

startswith(s, p) ==
    Len(s) >= Len(p) /\ SubSeq(s, 1, Len(p)) = p

endswith(s, p) ==
    Len(s) >= Len(p) /\ SubSeq(s, Len(s) - Len(p) + 1, Len(s)) = p

\* Python's s < t on strings: the code points at the first difference, a
\* proper prefix being smaller.
StrLess(s, t) ==
    \E k \in 1..(Len(s) + 1) :
        /\ k <= Len(t)
        /\ \A i \in 1..(k - 1) : s[i] = t[i]
        /\ IF k <= Len(s) THEN Ord[s[k]] < Ord[t[k]] ELSE TRUE

RECURSIVE Insert(_, _)
Insert(x, list) ==
    IF list = <<>> THEN <<x>>
    ELSE IF StrLess(x, Head(list)) THEN <<x>> \o list
    ELSE <<Head(list)>> \o Insert(x, Tail(list))

\* list.sort() / sorted() on a list of strings.
RECURSIVE sorted(_)
sorted(list) ==
    IF list = <<>> THEN <<>>
    ELSE Insert(list[Len(list)], sorted(SubSeq(list, 1, Len(list) - 1)))

\* The orders in which the operating system may enumerate a set of names.
RECURSIVE Orderings(_)
Orderings(S) ==
    IF S = {} THEN { <<>> }
    ELSE UNION { { <<x>> \o o : o \in Orderings(S \ {x}) } : x \in S }

Range(seq) == { seq[i] : i \in 1..Len(seq) }

-----------------------------------------------------------------------------
(* The placeholder pattern \$([a-zA-Z0-9_@]+)\$ and findall *)

\* The character class [a-zA-Z0-9_@].
InClass(c) ==
    \/ Ord[c] \in 97..122
    \/ Ord[c] \in 65..90
    \/ Ord[c] \in 48..57
    \/ Ord[c] = 95
    \/ Ord[c] = 64

\* End of the longest run of class characters starting at i (greedy +): the
\* index of the first character from i on that is not in the class.
RECURSIVE RunEnd(_, _)
RunEnd(text, i) ==
    IF i <= Len(text) /\ InClass(text[i]) THEN RunEnd(text, i + 1) ELSE i

\* placeholder_pattern.findall(text) scanning from index i: at a "$" followed
\* by a non-empty run of class characters and a closing "$" the group is
\* kept and the scan resumes after the closing "$"; otherwise it resumes at
\* the next character.  (A shorter run cannot match either: the character
\* after it would be a class character, not "$".)
RECURSIVE FindFrom(_, _)
FindFrom(text, i) ==
    IF i > Len(text) THEN <<>>
    ELSE IF text[i] = "$"
         THEN LET j == RunEnd(text, i + 1)
              IN  IF j > i + 1 /\ j <= Len(text) /\ text[j] = "$"
                  THEN <<SubSeq(text, i + 1, j - 1)>> \o FindFrom(text, j + 1)
                  ELSE FindFrom(text, i + 1)
         ELSE FindFrom(text, i + 1)

findall(text) == FindFrom(text, 1)

-----------------------------------------------------------------------------
(* parseJsonFiles *)

\* glob(<dir>/*.json) on a directory holding the names in entries: "*" does
\* not match a leading dot, and the order is the operating system's.
GlobMatches(name) ==
    /\ endswith(name, <<".","j","s","o","n">>)
    /\ ~startswith(name, <<".">>)

Glob(entries) == Orderings({ n \in entries : GlobMatches(n) })

\* A variant of line 40 that names a message by its id alone.
MessageKey_IdOnly(file_id, message_id) == message_id

\* The dictionary id "<relative_file_name>:<message_id>".
MessageKey(file_id, message_id) == file_id \o <<":">> \o message_id

\* A dict is the sequence of its items, [key, value], in insertion order.
Keys(dict) == { dict[i].key : i \in 1..Len(dict) }

IndexOf(dict, k) == CHOOSE i \in 1..Len(dict) : dict[i].key = k

Value(dict, k) == dict[IndexOf(dict, k)].value

\* dict[k] = v: an existing key keeps its place, a new one goes last.
SetItem(dict, k, v) ==
    IF k \in Keys(dict)
    THEN [dict EXCEPT ![IndexOf(dict, k)] = [key |-> k, value |-> v]]
    ELSE Append(dict, [key |-> k, value |-> v])

\* Lines 34-43 for one item of a file.
MessageRecord(message_data) ==
    [text |-> message_data.message,
     placeholders |-> IF "placeholders" \in DOMAIN message_data
                      THEN message_data.placeholders
                      ELSE <<>>]

\* Lines 33-43: the items of one loaded file, in order.  An item without
\* "message" raises KeyError; the items before it are already stored.
RECURSIVE StoreItems(_, _, _)
StoreItems(messages, file_id, items) ==
    IF items = <<>> THEN [messages |-> messages, raised |-> None]
    ELSE LET message_id   == Head(items)[1]
             message_data == Head(items)[2]
         IN  IF "message" \notin DOMAIN message_data
             THEN [messages |-> messages, raised |-> "KeyError: 'message'"]
             ELSE StoreItems(
                    SetItem(messages, MessageKey(file_id, message_id),
                            MessageRecord(message_data)),
                    file_id, Tail(items))

\* A variant of lines 31-43 that skips a file json.load rejects.
LoadFile_SkipsMalformed(messages, file_id, json_data) ==
    IF json_data.raised # None
    THEN [messages |-> messages, raised |-> None]
    ELSE StoreItems(messages, file_id, json_data.items)

\* Lines 31-43 for one file: json.load, then the items.
LoadFile(messages, file_id, json_data) ==
    IF json_data.raised # None
    THEN [messages |-> messages, raised |-> json_data.raised]
    ELSE StoreItems(messages, file_id, json_data.items)

\* The calls of the log that opened a file.
Opens == { i \in 1..Len(io) : io[i][1] = "open" }

\* The JSON files the run may still meet.
FilesLeft == MaxJsonFiles - Cardinality(Opens)

\* An unhandled exception: the traceback goes to standard error, status 1.
Traceback(exc) == [exc |-> exc, text |-> <<"Traceback (most recent call last):">>]


-----------------------------------------------------------------------------
(* main *)

\* --ref: the default "en", or another code given on the command line.
RefArgs == { <<"e","n">>, <<"d","e">> }

\* What the process wrote to standard error when it ended.
NoError == [exc |-> None, text |-> <<>>]

SystemExit(text) == [exc |-> "SystemExit", text |-> text]

exception_file == "check_exceptions.json"

Init ==
    /\ pc = "check_reference"
    /\ reference_locale \in RefArgs
    /\ reference_messages = <<>>
    /\ exceptions = EmptyDict
    /\ locales = <<>>
    /\ messages_with_placeholders = <<>>
    /\ li = 0
    /\ locale_messages = <<>>
    /\ file_list = <<>>
    /\ errors = <<>>
    /\ stdout = <<>>
    /\ stderr = NoError
    /\ exit_status = None
    /\ io = <<>>

\* A variant of lines 65-69 that only warns about a missing folder.
CheckReferenceFolder_GoesOn ==
    /\ pc = "check_reference"
    /\ \E isdir \in BOOLEAN :
         /\ io' = Append(io, <<"isdir", reference_locale, isdir>>)
         /\ stderr' = IF isdir THEN stderr
                       ELSE SystemExit(<<"The folder for the reference locale (",
                                         reference_locale,
                                         ") does not exist">>)
    /\ pc' = "glob_reference"
    /\ UNCHANGED <<reference_locale, reference_messages, exceptions, locales,
                   messages_with_placeholders, li, locale_messages,
                   file_list, errors, stdout, exit_status>>

\* Lines 65-69: the reference folder must exist.
CheckReferenceFolder ==
    /\ pc = "check_reference"
    /\ \E isdir \in BOOLEAN :
         /\ io' = Append(io, <<"isdir", reference_locale, isdir>>)
         /\ IF isdir
            THEN /\ pc' = "glob_reference"
                 /\ UNCHANGED <<stderr, exit_status>>
            ELSE /\ pc' = "exit"
                 /\ stderr' = SystemExit(<<"The folder for the reference locale (",
                                           reference_locale,
                                           ") does not exist">>)
                 /\ exit_status' = 1
    /\ UNCHANGED <<reference_locale, reference_messages, exceptions, locales,
                   messages_with_placeholders, li, locale_messages,
                   file_list, errors, stdout>>

\* Lines 71-72 and 24-27: parseJsonFiles lists the reference's files.
GlobReference ==
    /\ pc = "glob_reference"
    /\ \E entries \in SUBSET FileNames : \E found \in Glob(entries) :
         /\ Len(found) <= FilesLeft
         /\ file_list' = found
         /\ pc' = IF found = <<>> THEN "load_exceptions" ELSE "parse_reference"
    /\ reference_messages' = <<>>
    /\ io' = Append(io, <<"glob", reference_locale>>)
    /\ UNCHANGED <<reference_locale, exceptions, locales, messages_with_placeholders, li,
                   locale_messages, errors, stdout, stderr, exit_status>>

\* Lines 29-43 for the next file of the reference.
ParseReferenceFile ==
    /\ pc = "parse_reference"
    /\ \E json_data \in JsonFiles :
         LET f == Head(file_list)
             r == LoadFile(reference_messages, f, json_data)
         IN  /\ io' = Append(io, <<"open", reference_locale, f, json_data>>)
             /\ reference_messages' = r.messages
             /\ file_list' = Tail(file_list)
             /\ IF r.raised # None
                THEN /\ pc' = "exit"
                     /\ stderr' = Traceback(r.raised)
                     /\ exit_status' = 1
                ELSE /\ pc' = IF Tail(file_list) = <<>>
                              THEN "load_exceptions" ELSE "parse_reference"
                     /\ UNCHANGED <<stderr, exit_status>>
    /\ UNCHANGED <<reference_locale, exceptions, locales, messages_with_placeholders, li,
                   locale_messages, errors, stdout>>

\* What print() writes: a fixed line, the warning of line 82, or the error
\* records joined by newlines.
Line(text) == [printed |-> "line", text |-> text]

Missing(file) == [printed |-> "missing", text |-> file]

Join(list) == [printed |-> "join", text |-> list]

\* Lines 74-83: the exceptions file, or {} and a warning.
LoadExceptions ==
    /\ pc = "load_exceptions"
    /\ \/ \E content \in ExceptionFiles :
            /\ exceptions' = content
            /\ UNCHANGED stdout
       \/ /\ exceptions' = EmptyDict
          /\ stdout' = Append(stdout, Missing(exception_file))
    /\ io' = Append(io, <<"isfile", exception_file>>)
    /\ pc' = "list_locales"
    /\ UNCHANGED <<reference_locale, reference_messages, locales, messages_with_placeholders,
                   li, locale_messages, file_list, errors, stderr,
                   exit_status>>

\* A variant of lines 89-94 without locales.sort().
Locales_Unsorted(walked) ==
    SelectSeq(walked,
              LAMBDA f : ~startswith(f, <<".">>) /\ f # reference_locale)

\* Lines 89-94: the subfolders but the hidden ones and the reference, sorted.
Locales(walked) ==
    sorted(SelectSeq(walked,
             LAMBDA f : ~startswith(f, <<".">>) /\ f # reference_locale))

\* A variant of lines 96-100 without the "if v[placeholders]" filter.
MessagesWithPlaceholders_All(messages) ==
    [i \in 1..Len(messages) |->
       [key |-> messages[i].key, value |-> messages[i].value.placeholders]]

\* Lines 96-100: the reference messages that declare placeholders.
MessagesWithPlaceholders(messages) ==
    SelectSeq([i \in 1..Len(messages) |->
                 [key |-> messages[i].key,
                  value |-> messages[i].value.placeholders]],
              LAMBDA kv : kv.value # <<>>)

\* Lines 85-102: the locales to validate, the reference messages to compare.
ListLocales ==
    /\ pc = "list_locales"
    /\ \E dirs \in SUBSET DirNames : \E walked \in Orderings(dirs) :
         /\ locales' = Locales(walked)
         /\ pc' = IF Locales(walked) = <<>> THEN "report" ELSE "glob_locale"
    /\ errors' = <<>>
    /\ messages_with_placeholders' =
           MessagesWithPlaceholders(reference_messages)
    /\ li' = 1
    /\ io' = Append(io, <<"walk">>)
    /\ UNCHANGED <<reference_locale, reference_messages, exceptions, locale_messages,
                   file_list, stdout, stderr, exit_status>>

locale == locales[li]

\* Lines 103-104 and 24-27: parseJsonFiles lists the locale's files.
GlobLocale ==
    /\ pc = "glob_locale"
    /\ \E entries \in SUBSET FileNames : \E found \in Glob(entries) :
         /\ Len(found) <= FilesLeft
         /\ file_list' = found
         /\ pc' = IF found = <<>> THEN "check_placeholders" ELSE "parse_locale"
    /\ locale_messages' = <<>>
    /\ io' = Append(io, <<"glob", locale>>)
    /\ UNCHANGED <<reference_locale, reference_messages, exceptions, locales,
                   messages_with_placeholders, li, errors, stdout, stderr,
                   exit_status>>

\* Lines 29-43 for the next file of the locale.
ParseLocaleFile ==
    /\ pc = "parse_locale"
    /\ \E json_data \in JsonFiles :
         LET f == Head(file_list)
             r == LoadFile(locale_messages, f, json_data)
         IN  /\ io' = Append(io, <<"open", locale, f, json_data>>)
             /\ locale_messages' = r.messages
             /\ file_list' = Tail(file_list)
             /\ IF r.raised # None
                THEN /\ pc' = "exit"
                     /\ stderr' = Traceback(r.raised)
                     /\ exit_status' = 1
                ELSE /\ pc' = IF Tail(file_list) = <<>>
                              THEN "check_placeholders" ELSE "parse_locale"
                     /\ UNCHANGED <<stderr, exit_status>>
    /\ UNCHANGED <<reference_locale, reference_messages, exceptions, locales,
                   messages_with_placeholders, li, errors, stdout>>


\* An error record: the three lines of the f-strings of lines 120 and 128.
ErrorRecord(loc, what, message_id, text) ==
    [locale |-> loc, what |-> what, message_id |-> message_id, text |-> text]

PlaceholderMismatch == "Placeholder mismatch in"
PilcrowIn == "PILCROW in"

\* A variant of line 113 that looks the key up under every locale of the
\* exceptions file.
IsKnownException_AnyLocale(message_id, loc) ==
    \E l \in DOMAIN exceptions.placeholders :
        message_id \in exceptions.placeholders[l]

\* Line 113: message_id in exceptions["placeholders"].get(locale, {}).
\* Evaluated only when "placeholders" is a key of exceptions.
IsKnownException(message_id, loc) ==
    /\ loc \in DOMAIN exceptions.placeholders
    /\ message_id \in exceptions.placeholders[loc]

\* Line 118: sorted(placeholders) != sorted(l10n_placeholders).
Mismatch(placeholders, l10n_message) ==
    sorted(placeholders) # sorted(findall(l10n_message))

\* Lines 107-121 from item i of messages_with_placeholders on: the records
\* appended, and the exception raised if any.
RECURSIVE PlaceholderLoop(_, _)
PlaceholderLoop(i, found) ==
    IF i > Len(messages_with_placeholders)
    THEN [errors |-> found, raised |-> None]
    ELSE LET message_id   == messages_with_placeholders[i].key
             placeholders == messages_with_placeholders[i].value
         IN  IF message_id \notin Keys(locale_messages)
             THEN PlaceholderLoop(i + 1, found)
             ELSE IF "placeholders" \notin DOMAIN exceptions
             THEN [errors |-> found, raised |-> "KeyError: 'placeholders'"]
             ELSE IF IsKnownException(message_id, locale)
             THEN PlaceholderLoop(i + 1, found)
             ELSE LET l10n_message == Value(locale_messages, message_id).text
                  IN  IF Mismatch(placeholders, l10n_message)
                      THEN PlaceholderLoop(i + 1,
                             Append(found,
                                    ErrorRecord(locale, PlaceholderMismatch,
                                                message_id, l10n_message)))
                      ELSE PlaceholderLoop(i + 1, found)

\* Lines 106-121: the placeholder check of the locale.
CheckPlaceholders ==
    /\ pc = "check_placeholders"
    /\ LET r == PlaceholderLoop(1, errors)
       IN  /\ errors' = r.errors
           /\ IF r.raised # None
              THEN /\ pc' = "exit"
                   /\ stderr' = Traceback(r.raised)
                   /\ exit_status' = 1
              ELSE /\ pc' = "check_pilcrows"
                   /\ UNCHANGED <<stderr, exit_status>>
    /\ UNCHANGED <<reference_locale, reference_messages, exceptions, locales,
                   messages_with_placeholders, li, locale_messages,
                   file_list, stdout, io>>

\* Lines 123-129 from item i of locale_messages on.
RECURSIVE PilcrowLoop(_, _)
PilcrowLoop(i, found) ==
    IF i > Len(locale_messages) THEN found
    ELSE LET message_id   == locale_messages[i].key
             l10n_message == locale_messages[i].value.text
         IN  IF PILCROW \in Range(l10n_message)
             THEN PilcrowLoop(i + 1,
                    Append(found, ErrorRecord(locale, PilcrowIn, message_id,
                                              l10n_message)))
             ELSE PilcrowLoop(i + 1, found)

\* Lines 123-129, and line 102: the for loop moves on to the next locale.
CheckPilcrows ==
    /\ pc = "check_pilcrows"
    /\ errors' = PilcrowLoop(1, errors)
    /\ li' = li + 1
    /\ pc' = IF li + 1 > Len(locales) THEN "report" ELSE "glob_locale"
    /\ UNCHANGED <<reference_locale, reference_messages, exceptions, locales,
                   messages_with_placeholders, locale_messages, file_list,
                   stdout, stderr, exit_status, io>>

\* A variant of lines 131-136 that falls off the end of main() after the
\* error list too.
Report_ExitsZero ==
    /\ pc = "report"
    /\ stdout' = IF errors # <<>>
                 THEN stdout \o <<Line("ERRORS:"), Join(errors)>>
                 ELSE Append(stdout, Line("No errors found."))
    /\ exit_status' = 0
    /\ pc' = "exit"
    /\ UNCHANGED <<reference_locale, reference_messages, exceptions, locales,
                   messages_with_placeholders, li, locale_messages,
                   file_list, errors, stderr, io>>

\* Lines 131-136: the report and the exit status.
Report ==
    /\ pc = "report"
    /\ IF errors # <<>>
       THEN /\ stdout' = stdout \o <<Line("ERRORS:"), Join(errors)>>
            /\ exit_status' = 1
       ELSE /\ stdout' = Append(stdout, Line("No errors found."))
            /\ exit_status' = 0
    /\ pc' = "exit"
    /\ UNCHANGED <<reference_locale, reference_messages, exceptions, locales,
                   messages_with_placeholders, li, locale_messages,
                   file_list, errors, stderr, io>>

Next ==
    \/ CheckReferenceFolder
    \/ GlobReference
    \/ ParseReferenceFile
    \/ LoadExceptions
    \/ ListLocales
    \/ GlobLocale
    \/ ParseLocaleFile
    \/ CheckPlaceholders
    \/ CheckPilcrows
    \/ Report

Spec == Init /\ [][Next]_vars


-----------------------------------------------------------------------------
(* Vocabulary of the properties *)

Hidden(name) == startswith(name, <<".">>)

\* The indices of the error records about (loc, message_id) of one kind.
RecordsOf(loc, what, message_id) ==
    { i \in 1..Len(errors) :
        /\ errors[i].locale = loc
        /\ errors[i].what = what
        /\ errors[i].message_id = message_id }

\* The indices of the error records of one locale.
RecordsOfLocale(loc) == { i \in 1..Len(errors) : errors[i].locale = loc }

\* The reference messages that declare at least one placeholder.
Declaring ==
    { i \in 1..Len(reference_messages) :
        reference_messages[i].value.placeholders # <<>> }

\* The exception set of a locale: what the exceptions file lists under it,
\* nothing when the file is absent or does not name the locale.
ExceptionSet(loc) ==
    IF "placeholders" \in DOMAIN exceptions
    THEN IF loc \in DOMAIN exceptions.placeholders
         THEN exceptions.placeholders[loc]
         ELSE {}
    ELSE {}

ExceptionsFileMissing == Missing(exception_file) \in Range(stdout)

\* Number of occurrences of x in a list.
RECURSIVE Count(_, _)
Count(x, list) ==
    IF list = <<>> THEN 0
    ELSE (IF Head(list) = x THEN 1 ELSE 0) + Count(x, Tail(list))

\* Two lists hold the same elements the same number of times.
SameMultiset(a, b) ==
    \A x \in Range(a) \cup Range(b) : Count(x, a) = Count(x, b)

\* The locale whose two checks have just been completed: the for loop is at
\* its head again (or left), and locale_messages still holds its catalog.
Checked == li > 1 /\ pc \in {"glob_locale", "report"}

checked_locale == locales[li - 1]

\* The run died in the placeholder check of the current locale.
DiedInCheck == pc = "exit" /\ stderr.exc = "KeyError: 'placeholders'"

\* The run met one of the fatal errors of a message file.
FileError == stderr.exc \in {JSONDecodeError, "KeyError: 'message'"}

\* The run went through the report of lines 131-136.
Reported ==
    \E i \in 1..Len(stdout) :
        stdout[i] \in {Line("ERRORS:"), Line("No errors found.")}

Position(dict, k) == IndexOf(dict, k)

-----------------------------------------------------------------------------
(* C1 *)

\* The statement of C1 for locale loc, whose catalog is locale_messages.
PlaceholderRecordsRight(loc) ==
    \A i \in Declaring :
        LET message_id == reference_messages[i].key
            declared   == reference_messages[i].value.placeholders
        IN  (message_id \in Keys(locale_messages)
             /\ message_id \notin ExceptionSet(loc))
            => LET tokens == findall(Value(locale_messages, message_id).text)
                   n == Cardinality(RecordsOf(loc, PlaceholderMismatch,
                                              message_id))
               IN  /\ n <= 1
                   /\ n = 1 <=> ~SameMultiset(tokens, declared)

\* C1: once the catalog of a validated locale is loaded and the run is past
\* its checks (or over), a placeholder-mismatch record exists for (locale,
\* key), for every reference key that declares placeholders, is translated
\* and is not excepted, exactly when the $name$ tokens of the translation
\* differ from the declared names as multisets, and there is at most one.
C1_MismatchRecordIffTokensDiffer ==
    /\ Checked => PlaceholderRecordsRight(checked_locale)
    /\ DiedInCheck => PlaceholderRecordsRight(locale)

\* C1 where the exceptions file exists: the statement holds.
C1_WithExceptionsFile ==
    (Checked /\ ~ExceptionsFileMissing)
        => PlaceholderRecordsRight(checked_locale)

\* C1, the case: a checked locale with a mismatch record and the file there.
C1_Witness ==
    /\ Checked
    /\ ~ExceptionsFileMissing
    /\ \E i \in Declaring :
         RecordsOf(checked_locale, PlaceholderMismatch,
                   reference_messages[i].key) # {}

-----------------------------------------------------------------------------
(* C2 *)

\* The statement of C2 for locale loc, whose catalog is locale_messages.
PilcrowRecordsRight(loc) ==
    \A i \in 1..Len(locale_messages) :
        Cardinality(RecordsOf(loc, PilcrowIn, locale_messages[i].key))
          = IF PILCROW \in Range(locale_messages[i].value.text)
            THEN 1 ELSE 0

\* C2: once the catalog of a validated locale is loaded and the run is past
\* its checks (or over), every message of the catalog whose text holds a
\* pilcrow has exactly one pilcrow record, and every other message none.
C2_OnePilcrowRecordPerMessage ==
    /\ Checked => PilcrowRecordsRight(checked_locale)
    /\ DiedInCheck => PilcrowRecordsRight(locale)

\* C2 where the exceptions file exists: the statement holds.
C2_WithExceptionsFile ==
    (Checked /\ ~ExceptionsFileMissing)
        => PilcrowRecordsRight(checked_locale)

-----------------------------------------------------------------------------
(* C3 *)

\* C3: when the exceptions file is absent the run is not aborted: unless a
\* message file is malformed, it ends through the report with status 0 or 1.
C3_MissingExceptionsFileIsTolerated ==
    (ExceptionsFileMissing /\ pc = "exit" /\ ~FileError)
        => /\ Reported
           /\ stderr = NoError
           /\ li > Len(locales)


-----------------------------------------------------------------------------
(* C4 *)

\* The keys the exceptions file lists under some locale.
ListedSomewhere ==
    UNION { ExceptionSet(l) : l \in DirNames }

\* C4: no placeholder-mismatch record is ever about a key the exceptions
\* file lists under the record's locale; once a locale is checked, a listed
\* key of its catalog whose text holds a pilcrow has its pilcrow record, and
\* a key listed under another locale only is still compared: it has its
\* mismatch record when the tokens differ from the declared names.
C4_ExceptionSuppressesOnlyItsLocalesMismatch ==
    /\ \A i \in 1..Len(errors) :
         errors[i].what = PlaceholderMismatch
           => errors[i].message_id \notin ExceptionSet(errors[i].locale)
    /\ Checked =>
         /\ \A k \in ExceptionSet(checked_locale) \cap Keys(locale_messages) :
              PILCROW \in Range(Value(locale_messages, k).text)
                => Cardinality(RecordsOf(checked_locale, PilcrowIn, k)) = 1
         /\ \A i \in Declaring :
              LET k == reference_messages[i].key
              IN  (/\ k \in ListedSomewhere \ ExceptionSet(checked_locale)
                   /\ k \in Keys(locale_messages)
                   /\ ~SameMultiset(
                         findall(Value(locale_messages, k).text),
                         reference_messages[i].value.placeholders))
                  => RecordsOf(checked_locale, PlaceholderMismatch, k) # {}

\* C4, the case: "de" lists a.json:m and translated it with other tokens and
\* a pilcrow, "fr" does not list it and translated it with other tokens:
\* "de" has the pilcrow record only, "fr" has the mismatch record.
C4_Witness ==
    /\ Checked
    /\ checked_locale = <<"f","r">>
    /\ KeyAM \in ExceptionSet(<<"d","e">>)
    /\ \E i \in Declaring :
         /\ reference_messages[i].key = KeyAM
         /\ \E j \in RecordsOf(<<"d","e">>, PilcrowIn, KeyAM) :
              Mismatch(reference_messages[i].value.placeholders,
                       errors[j].text)
    /\ RecordsOf(<<"d","e">>, PlaceholderMismatch, KeyAM) = {}
    /\ RecordsOf(<<"f","r">>, PlaceholderMismatch, KeyAM) # {}

-----------------------------------------------------------------------------
(* C5 *)

\* What the report of a run without error records, and with them, prints.
ReportOf(list) ==
    IF list = <<>> THEN <<Line("No errors found.")>>
    ELSE <<Line("ERRORS:"), Join(list)>>

\* stdout but the warning about the exceptions file.
Printed == SelectSeq(stdout, LAMBDA l : l.printed # "missing")

\* The locales whose directory was listed by parseJsonFiles.
Globbed == { io[i][2] : i \in { j \in 1..Len(io) : io[j][1] = "glob" } }

\* C5: a run that ends without a fatal error has processed every locale,
\* exits with 1 exactly when an error record was collected and with 0
\* otherwise, and has printed each collected record once, in the report;
\* before the end nothing about errors is printed, and the run is at a
\* position whose step can be taken.
C5_ReportAfterAllLocales ==
    /\ (pc = "exit" /\ stderr = NoError) =>
         /\ li > Len(locales)
         /\ Range(locales) \subseteq Globbed
         /\ exit_status \in {0, 1}
         /\ exit_status = 1 <=> errors # <<>>
         /\ Printed = ReportOf(errors)
    /\ pc # "exit" => Printed = <<>> /\ exit_status = None
    /\ pc # "exit" =>
         /\ pc \in {"check_reference", "glob_reference", "parse_reference",
                    "load_exceptions", "list_locales", "glob_locale",
                    "parse_locale", "check_placeholders", "check_pilcrows",
                    "report"}
         /\ pc \in {"parse_reference", "parse_locale"} => file_list # <<>>
         /\ pc \in {"glob_locale", "parse_locale", "check_placeholders",
                    "check_pilcrows"} => li \in 1..Len(locales)

\* C5, the case: a run over two locales, the first of which has a record,
\* ended through the report with status 1.
C5_Witness ==
    /\ pc = "exit"
    /\ stderr = NoError
    /\ Len(locales) = 2
    /\ RecordsOfLocale(locales[1]) # {}
    /\ exit_status = 1

-----------------------------------------------------------------------------
(* C6 *)

\* C6: when isdir of the reference folder is false, the run is over with
\* status 1 and a message naming the reference locale, and nothing else was
\* done: no directory listed, no file opened, the exceptions file not looked
\* for, no locale, no record, nothing printed.
C6_MissingReferenceFolderExitsFirst ==
    (io # <<>> /\ io[1] = <<"isdir", reference_locale, FALSE>>) =>
        /\ pc = "exit"
        /\ exit_status = 1
        /\ stderr.exc = "SystemExit"
        /\ stderr.text[2] = reference_locale
        /\ Len(io) = 1
        /\ reference_messages = <<>>
        /\ locales = <<>>
        /\ locale_messages = <<>>
        /\ errors = <<>>
        /\ stdout = <<>>

\* C6, the case: the reference folder was looked for and is not there.
C6_Witness ==
    /\ io # <<>>
    /\ io[1] = <<"isdir", reference_locale, FALSE>>
    /\ pc = "exit"


-----------------------------------------------------------------------------
(* C7 *)

\* The printed error list is the collected one, in its order.
PrintedInDiscoveryOrder ==
    (pc = "exit" /\ stderr = NoError /\ errors # <<>>)
        => stdout[Len(stdout)] = Join(errors)

\* The locales are in strictly ascending order of their code, and so are the
\* locales of the records.
LocalesAscending ==
    /\ \A i, j \in 1..Len(locales) :
         i < j => StrLess(locales[i], locales[j])
    /\ \A i, j \in 1..Len(errors) :
         i < j => \/ errors[i].locale = errors[j].locale
                  \/ StrLess(errors[i].locale, errors[j].locale)

\* C7 as stated: the printed list is the collected one, ordered by locale
\* code, and within the locale just checked by the place of the record's
\* message in the iteration of the locale's catalog, whichever check made
\* the record.
C7_Original ==
    /\ PrintedInDiscoveryOrder
    /\ LocalesAscending
    /\ Checked =>
         \A i, j \in RecordsOfLocale(checked_locale) :
             i < j => Position(locale_messages, errors[i].message_id)
                        <= Position(locale_messages, errors[j].message_id)

\* C7 amended: within a locale the placeholder-mismatch records come first,
\* in the iteration order of the reference catalog, then the pilcrow
\* records, in the iteration order of the locale's catalog.
C7_PlaceholderRecordsThenPilcrowRecords ==
    /\ PrintedInDiscoveryOrder
    /\ LocalesAscending
    /\ Checked =>
         \A i, j \in RecordsOfLocale(checked_locale) :
             i < j =>
               /\ ~(errors[i].what = PilcrowIn
                    /\ errors[j].what = PlaceholderMismatch)
               /\ (errors[i].what = PlaceholderMismatch
                   /\ errors[j].what = PlaceholderMismatch)
                  => Position(reference_messages, errors[i].message_id)
                       < Position(reference_messages, errors[j].message_id)
               /\ (errors[i].what = PilcrowIn /\ errors[j].what = PilcrowIn)
                  => Position(locale_messages, errors[i].message_id)
                       < Position(locale_messages, errors[j].message_id)

\* C7, the case: the report of a run over two locales with records in both,
\* the second locale having a mismatch record about a message iterated after
\* one that has a pilcrow record.
C7_Witness ==
    /\ pc = "exit"
    /\ stderr = NoError
    /\ Len(locales) = 2
    /\ RecordsOfLocale(locales[1]) # {}
    /\ \E i, j \in RecordsOfLocale(locales[2]) :
         /\ errors[i].what = PlaceholderMismatch
         /\ errors[j].what = PilcrowIn
         /\ Position(locale_messages, errors[j].message_id)
              < Position(locale_messages, errors[i].message_id)
    /\ stdout[Len(stdout)] = Join(errors)

-----------------------------------------------------------------------------
(* C8 *)

\* The file opened by call i of the log is malformed JSON or has an entry
\* without "message".
BadFile(i) ==
    /\ io[i][1] = "open"
    /\ \/ io[i][4].raised # None
       \/ \E n \in 1..Len(io[i][4].items) :
            "message" \notin DOMAIN io[i][4].items[n][2]

-----------------------------------------------------------------------------
(* C9 *)

\* The calls of the log that opened a well-formed file of directory dir.
Loaded(dir) ==
    { i \in 1..Len(io) :
        /\ io[i][1] = "open"
        /\ io[i][2] = dir
        /\ ~BadFile(i) }

\* The catalog of directory dir is complete.
Parsed(dir, messages) ==
    \/ dir = reference_locale /\ messages = reference_messages
         /\ pc = "load_exceptions"
    \/ li \in 1..Len(locales) /\ dir = locale /\ messages = locale_messages
         /\ pc = "check_placeholders"

\* The entries of a catalog for message id id.
EntriesFor(messages, id) ==
    { n \in 1..Len(messages) : endswith(messages[n].key, <<":">> \o id) }

\* For a complete catalog: when two different files both hold message id
\* id, the catalog has a single entry for it, from the file enumerated last.
OverwrittenIn(dir, messages) ==
    \A i, j \in Loaded(dir) :
        \A a \in 1..Len(io[i][4].items), b \in 1..Len(io[j][4].items) :
            (i < j /\ io[i][4].items[a][1] = io[j][4].items[b][1])
              => LET e == EntriesFor(messages, io[j][4].items[b][1])
                 IN  /\ Cardinality(e) = 1
                     /\ \A n \in e :
                          messages[n].value
                            = MessageRecord(io[j][4].items[b][2])

\* C9 as stated: in the catalog of the reference and of every locale, a
\* message id held by two files has a single entry, the last file's.
C9_Original ==
    /\ Parsed(reference_locale, reference_messages)
         => OverwrittenIn(reference_locale, reference_messages)
    /\ (li \in 1..Len(locales) /\ Parsed(locale, locale_messages))
         => OverwrittenIn(locale, locale_messages)

\* For a complete catalog: every entry of every file loaded is in the
\* catalog under "<file>:<id>" with that file's text and placeholders, and
\* a message id held by two files has at least two entries.
KeptApartIn(dir, messages) ==
    /\ \A i \in Loaded(dir) : \A a \in 1..Len(io[i][4].items) :
         LET k == io[i][3] \o <<":">> \o io[i][4].items[a][1]
         IN  /\ k \in Keys(messages)
             /\ Value(messages, k) = MessageRecord(io[i][4].items[a][2])
    /\ \A i, j \in Loaded(dir) :
         \A a \in 1..Len(io[i][4].items), b \in 1..Len(io[j][4].items) :
            (i < j /\ io[i][4].items[a][1] = io[j][4].items[b][1])
              => Cardinality(EntriesFor(messages, io[j][4].items[b][1])) >= 2

\* C9 amended: in the catalog of the reference and of every locale, a
\* message id held by two files has one entry per file, under
\* "<file>:<id>", each with its own file's text and placeholders: no file's
\* entry is overwritten by another file's.
C9_SameIdInTwoFilesIsTwoEntries ==
    /\ Parsed(reference_locale, reference_messages)
         => KeptApartIn(reference_locale, reference_messages)
    /\ (li \in 1..Len(locales) /\ Parsed(locale, locale_messages))
         => KeptApartIn(locale, locale_messages)

\* C9, the case: a locale's catalog built from two files that both hold
\* message id "m", with different texts.
C9_Witness ==
    /\ li \in 1..Len(locales)
    /\ Parsed(locale, locale_messages)
    /\ Len(locale_messages) = 2
    /\ Cardinality(EntriesFor(locale_messages, <<"m">>)) = 2
    /\ locale_messages[1].value.text # locale_messages[2].value.text

-----------------------------------------------------------------------------
(* C10 *)

\* C10: a placeholder-mismatch record is always about a key that declares
\* placeholders in the reference catalog, and, for the locale just checked,
\* about a key of its catalog; a locale none of whose files was loaded has
\* an empty catalog and no record.
C10_MismatchOnlyForDeclaredAndTranslated ==
    /\ \A i \in 1..Len(errors) :
         errors[i].what = PlaceholderMismatch =>
           \E n \in Declaring :
               reference_messages[n].key = errors[i].message_id
    /\ Checked =>
         /\ \A i \in RecordsOfLocale(checked_locale) :
              errors[i].message_id \in Keys(locale_messages)
         /\ Loaded(checked_locale) = {} =>
              /\ locale_messages = <<>>
              /\ RecordsOfLocale(checked_locale) = {}

\* C10, the case: a checked locale that translated, with $name$ tokens, a
\* message whose reference entry declares no placeholder and one that has no
\* reference entry, left a declaring reference message untranslated, and
\* has no mismatch record.
C10_Witness ==
    /\ Checked
    /\ Declaring # {}
    /\ \E i \in Declaring :
         reference_messages[i].key \notin Keys(locale_messages)
    /\ \E n \in 1..Len(locale_messages) :
         /\ locale_messages[n].key \in Keys(reference_messages)
         /\ Value(reference_messages, locale_messages[n].key).placeholders
              = <<>>
         /\ findall(locale_messages[n].value.text) # <<>>
    /\ \A i \in RecordsOfLocale(checked_locale) : errors[i].what = PilcrowIn

=============================================================================
